---- MODULE Spec2Model ----
(***************************************************************************)
(* Maximal-Assignment-C: the linked matrix (matrix_core.c) and the three   *)
(* solvers GreedyAlgorithm (greedy.c), BacktrackAlgorithm (backtrack.c)    *)
(* and HungarianAlgorithm (hungarian.c).                                   *)
(*                                                                         *)
(* A Matrix is a record [width, height, head]; head is the list of row     *)
(* nodes, each row node the list of its MatrixElement records              *)
(* [value, column].  C indices are 0-based; a list position p holds the    *)
(* node of index p - 1.  A null pointer is NULL.                           *)
(***************************************************************************)
EXTENDS Integers, Sequences, FiniteSets, TLC

\* ------------------------------------------------------------ bounds
MaxDim == 3
MaxCells == 9
MaxIter == 4
\* the cells of the matrices of CoreSpec and GreedySpec
MaxSmallCells == 4
\* the characters of the text files of FileSpec
MaxFileLen == 8
\* the cell values the input matrices are drawn from
Values == {-1, 0, 1}

\* ------------------------------------------------- program constants
SUCCESS == 0
MEMORY_ALLOCATION_FAILURE == -1
INVALID_MATRIX_OR_INDICES == -4
OUT_OF_BOUNDS == -8
DEFAULT_MATRIX_VALUE == 0
MAX_LINE_SIZE == 500
INT_MAX == 2147483647
INT_MIN == (0 - INT_MAX) - 1
NULL == <<>>
\* the null value of a pointer into the heap
NULLPTR == "null"

VARIABLES
  heap,          \* storage: heap.orig the caller's Matrix, heap.copy CopyMatrix's
                 \* (and, where a file is loaded, heap.file its characters)
  matrixCopy,    \* HungarianAlgorithm's local pointer: NULLPTR, "orig" or "copy"
  pc,            \* "ready": no call running; "loop": at the while of HungarianAlgorithm
  solver,        \* the solver whose outputs are held: "none", "greedy", ...
  ret,           \* its return code
  sum,           \* *maxSum / *result
  selection,     \* the selected elements, in the order they were stored
  coveredRows,   \* HungarianAlgorithm's local array
  coveredCols,   \* HungarianAlgorithm's local array
  iterations,    \* number of loop bodies the running/last Hungarian call executed
  entry,         \* the caller's matrix as it was when the call was entered
  call           \* the last call made: its name (op), its arguments and, for
                 \* BacktrackAlgorithm, what the instrumentation of the search saw

vars == <<heap, matrixCopy, pc, solver, ret, sum, selection, coveredRows,
          coveredCols, iterations, entry, call>>

\* ------------------------------------------------------ 32-bit int
\* a + b in a C int when it is representable; the two's-complement wrap
\* otherwise (computed without leaving the 32-bit range)
AddOverflows(a, b) ==
  \/ b > 0 /\ a > INT_MAX - b
  \/ b < 0 /\ a < INT_MIN - b

Add32(a, b) ==
  IF b > 0 /\ a > INT_MAX - b THEN ((a - (INT_MAX - b)) - 1) + INT_MIN
  ELSE IF b < 0 /\ a < INT_MIN - b THEN ((a - (INT_MIN - b)) + INT_MAX) + 1
  ELSE a + b

Sub32(a, b) ==
  IF b = INT_MIN THEN Add32(Add32(a, INT_MAX), 1) ELSE Add32(a, 0 - b)

\* ----------------------------------------------------- matrix_core.c
CreateMatrixElement(value, column) == [value |-> value, column |-> column]

\* InitializeRow numbering the column fields from 1
InitializeRowOneBased(width) ==
  IF width <= 0 THEN NULL
  ELSE [col \in 1..width |-> CreateMatrixElement(DEFAULT_MATRIX_VALUE, col)]

InitializeRow(width) ==
  IF width <= 0 THEN NULL
  ELSE [col \in 1..width |-> CreateMatrixElement(DEFAULT_MATRIX_VALUE, col - 1)]

InitializeRowNode(width) == InitializeRow(width)

CreateMatrix(width, height) ==
  IF width <= 0 \/ height <= 0
  THEN [ret |-> INVALID_MATRIX_OR_INDICES, matrix |-> NULL]
  ELSE [ret |-> SUCCESS,
        matrix |-> [width |-> width, height |-> height,
                    head |-> [row \in 1..height |-> InitializeRowNode(width)]]]

\* ReplaceValueAtPosition accepting row == height and col == width
ReplaceValueAtPositionInclusive(matrix, row, col, value) ==
  IF row < 0 \/ row > matrix.height \/ col < 0 \/ col > matrix.width
  THEN [ret |-> OUT_OF_BOUNDS, matrix |-> matrix]
  ELSE [ret |-> SUCCESS,
        matrix |-> IF row < matrix.height /\ col < matrix.width
                   THEN [matrix EXCEPT !.head[row + 1][col + 1].value = value]
                   ELSE matrix]

ReplaceValueAtPosition(matrix, row, col, value) ==
  IF row < 0 \/ row >= matrix.height \/ col < 0 \/ col >= matrix.width
  THEN [ret |-> OUT_OF_BOUNDS, matrix |-> matrix]
  ELSE [ret |-> SUCCESS,
        matrix |-> [matrix EXCEPT !.head[row + 1][col + 1].value = value]]

GetRowNode(matrix, rowIndex) ==
  IF matrix = NULL THEN NULL
  ELSE IF rowIndex < 0 \/ rowIndex >= matrix.height THEN NULL
  ELSE IF rowIndex >= Len(matrix.head) THEN NULL
  ELSE matrix.head[rowIndex + 1]

GetElementCol(rowNode, colIndex) ==
  IF rowNode = NULL \/ colIndex < 0 THEN NULL
  ELSE IF colIndex >= Len(rowNode) THEN NULL
  ELSE rowNode[colIndex + 1]

AddElementToRow(head, value, column) ==
  Append(head, CreateMatrixElement(value, column))

\* ------------------------------------------------------- matrix_io.c
\* the row InsertRow's for loop builds from the first width values of newRow
RECURSIVE InsertRowFrom(_, _, _, _)
InsertRowFrom(row, newRow, col, width) ==
  IF col >= width THEN row
  ELSE InsertRowFrom(AddElementToRow(row, newRow[col + 1], col), newRow,
                     col + 1, width)

InsertRow(matrix, newRow, sizeArray) ==
  IF matrix.width # sizeArray
  THEN [ret |-> OUT_OF_BOUNDS, matrix |-> matrix]
  ELSE [ret |-> SUCCESS,
        matrix |-> [matrix EXCEPT
                      !.head = <<InsertRowFrom(NULL, newRow, 0, matrix.width)>> \o @,
                      !.height = @ + 1]]

InsertColumn(matrix, newColumn, sizeArray) ==
  IF matrix.height # sizeArray
  THEN [ret |-> OUT_OF_BOUNDS, matrix |-> matrix]
  ELSE [ret |-> SUCCESS,
        matrix |-> [matrix EXCEPT
                      !.head = [r \in 1..Len(matrix.head) |->
                                  AddElementToRow(matrix.head[r], newColumn[r],
                                                  matrix.width)],
                      !.width = @ + 1]]

\* a list without its node of index i
Unlink(list, i) ==
  [p \in 1..(Len(list) - 1) |-> IF p <= i THEN list[p] ELSE list[p + 1]]

DeleteRow(matrix, rowIndex) ==
  IF rowIndex < 0 \/ rowIndex >= matrix.height
  THEN [ret |-> OUT_OF_BOUNDS, matrix |-> matrix]
  ELSE [ret |-> SUCCESS,
        matrix |-> [matrix EXCEPT !.head = Unlink(@, rowIndex),
                                  !.height = @ - 1]]

DeleteColumn(matrix, colIndex) ==
  IF matrix = NULL THEN [ret |-> OUT_OF_BOUNDS, matrix |-> matrix]
  ELSE IF colIndex < 0 \/ colIndex >= matrix.width
  THEN [ret |-> OUT_OF_BOUNDS, matrix |-> matrix]
  ELSE [ret |-> SUCCESS,
        matrix |-> [matrix EXCEPT
                      !.head = [r \in 1..Len(matrix.head) |->
                                  IF colIndex < Len(matrix.head[r])
                                  THEN Unlink(matrix.head[r], colIndex)
                                  ELSE matrix.head[r]],
                      !.width = @ - 1]]

\* a text file is the list of its characters
SEPARATOR == ";"
NEWLINE == "\n"
Digits == <<"0", "1", "2", "3", "4", "5", "6", "7", "8", "9">>
IsDigit(c) == \E d \in 1..Len(Digits) : Digits[d] = c
DigitValue(c) == (CHOOSE d \in 1..Len(Digits) : Digits[d] = c) - 1

\* the first while of GetMatrixSizeFromFile, reading from character i: the
\* position after the first line and the separators counted in it
RECURSIVE ScanFirstLine(_, _, _)
ScanFirstLine(file, i, colCount) ==
  IF i > Len(file) THEN [next |-> i, colCount |-> colCount]
  ELSE IF file[i] = NEWLINE THEN [next |-> i + 1, colCount |-> colCount]
  ELSE ScanFirstLine(file, i + 1,
                     IF file[i] = SEPARATOR THEN colCount + 1 ELSE colCount)

\* the second while: the newline characters from character i to the end
RECURSIVE CountNewlines(_, _, _)
CountNewlines(file, i, rowCount) ==
  IF i > Len(file) THEN rowCount
  ELSE CountNewlines(file, i + 1,
                     IF file[i] = NEWLINE THEN rowCount + 1 ELSE rowCount)

GetMatrixSizeFromFile(file) ==
  LET first == ScanFirstLine(file, 1, 0)
  IN [ret |-> SUCCESS,
      width |-> first.colCount + 1,
      height |-> CountNewlines(file, first.next, 0) + 1]

\* fgets(line, MAX_LINE_SIZE, file) from character i: the characters up to and
\* including the next newline, at most MAX_LINE_SIZE - 1 of them
RECURSIVE FGets(_, _, _)
FGets(file, i, line) ==
  IF i > Len(file) \/ Len(line) >= MAX_LINE_SIZE - 1 THEN [line |-> line, next |-> i]
  ELSE IF file[i] = NEWLINE THEN [line |-> Append(line, file[i]), next |-> i + 1]
  ELSE FGets(file, i + 1, Append(line, file[i]))

\* the tokens strtok_s yields for a line: its maximal runs of characters other
\* than the separator (token is the run being read)
RECURSIVE Tokens(_, _)
Tokens(line, token) ==
  IF line = <<>> THEN (IF token = <<>> THEN <<>> ELSE <<token>>)
  ELSE IF Head(line) = SEPARATOR
       THEN (IF token = <<>> THEN <<>> ELSE <<token>>) \o Tokens(Tail(line), <<>>)
       ELSE Tokens(Tail(line), Append(token, Head(line)))

\* atoi on a token without sign: leading white space is skipped, then the
\* digits up to the first other character are read
RECURSIVE AtoiDigits(_, _)
AtoiDigits(token, value) ==
  IF token = <<>> THEN value
  ELSE IF IsDigit(Head(token))
       THEN AtoiDigits(Tail(token), value * 10 + DigitValue(Head(token)))
       ELSE value

RECURSIVE Atoi(_)
Atoi(token) ==
  IF token = <<>> THEN 0
  ELSE IF Head(token) = NEWLINE THEN Atoi(Tail(token))
  ELSE AtoiDigits(token, 0)

\* the inner while of PopulateMatrixFromFile over the tokens of one line;
\* st is [ret, matrix, row, col]
RECURSIVE PopulateTokens(_, _)
PopulateTokens(tokens, st) ==
  IF tokens = <<>> THEN st
  ELSE IF st.row >= st.matrix.height \/ st.col >= st.matrix.width
       THEN [st EXCEPT !.ret = OUT_OF_BOUNDS]
       ELSE LET value == Atoi(Head(tokens))
                written == ReplaceValueAtPosition(st.matrix, st.row, st.col,
                                                  value).matrix
            IN PopulateTokens(Tail(tokens),
                 IF st.col + 1 = st.matrix.width
                 THEN [ret |-> st.ret, matrix |-> written,
                       row |-> st.row + 1, col |-> 0]
                 ELSE [ret |-> st.ret, matrix |-> written,
                       row |-> st.row, col |-> st.col + 1])

\* the outer while, from character i of the file
RECURSIVE PopulateLines(_, _, _)
PopulateLines(file, i, st) ==
  IF i > Len(file) \/ st.ret # SUCCESS THEN st
  ELSE LET read == FGets(file, i, <<>>)
       IN PopulateLines(file, read.next, PopulateTokens(Tokens(read.line, <<>>), st))

PopulateMatrixFromFile(file, matrix) ==
  LET st == PopulateLines(file, 1,
              [ret |-> SUCCESS, matrix |-> matrix, row |-> 0, col |-> 0])
  IN [ret |-> st.ret, matrix |-> st.matrix]

CreateMatrixFromFile(file) ==
  LET size == GetMatrixSizeFromFile(file)
      creation == CreateMatrix(size.width, size.height)
  IN IF creation.ret # SUCCESS THEN creation
     ELSE PopulateMatrixFromFile(file, creation.matrix)

\* ------------------------------------------------------ input matrices
\* the matrix a caller hands to a solver: CreateMatrix, then one
\* ReplaceValueAtPosition per cell (PopulateMatrixFromFile's loop)
RECURSIVE PopulateMatrix(_, _, _, _)
PopulateMatrix(matrix, cells, row, col) ==
  IF row >= matrix.height THEN matrix
  ELSE LET written == ReplaceValueAtPosition(matrix, row, col, cells[<<row, col>>]).matrix
       IN IF col + 1 = matrix.width
          THEN PopulateMatrix(written, cells, row + 1, 0)
          ELSE PopulateMatrix(written, cells, row, col + 1)

Min2(a, b) == IF a < b THEN a ELSE b

\* ----------------------------------------------------------- greedy.c
\* GreedyScanRow without the test of usedColumns
RECURSIVE GreedyScanRowAnyColumn(_, _, _, _)
GreedyScanRowAnyColumn(currentElement, usedRow, usedColumns, best) ==
  IF currentElement = <<>> THEN best
  ELSE LET e == Head(currentElement)
       IN GreedyScanRowAnyColumn(Tail(currentElement), usedRow, usedColumns,
            IF usedRow = 0 /\ e.value > best.maxElementValue
            THEN [maxElementValue |-> e.value, maxElement |-> e]
            ELSE best)

\* the inner while of GreedyAlgorithm: best is [maxElementValue, maxElement]
RECURSIVE GreedyScanRow(_, _, _, _)
GreedyScanRow(currentElement, usedRow, usedColumns, best) ==
  IF currentElement = <<>> THEN best
  ELSE LET e == Head(currentElement)
       IN GreedyScanRow(Tail(currentElement), usedRow, usedColumns,
            IF usedRow = 0 /\ usedColumns[e.column + 1] = 0
               /\ e.value > best.maxElementValue
            THEN [maxElementValue |-> e.value, maxElement |-> e]
            ELSE best)

\* the outer while: st is [maxSum, maxSelection, usedRows, usedColumns]
RECURSIVE GreedyRows(_, _, _)
GreedyRows(currentRow, rowIndex, st) ==
  IF currentRow = <<>> THEN st
  ELSE LET best == GreedyScanRow(Head(currentRow), st.usedRows[rowIndex + 1],
                                 st.usedColumns,
                                 [maxElementValue |-> INT_MIN, maxElement |-> NULL])
           maxElement == best.maxElement
       IN GreedyRows(Tail(currentRow), rowIndex + 1,
            IF maxElement # NULL
            THEN [maxSum |-> Add32(st.maxSum, maxElement.value),
                  maxSelection |-> Append(st.maxSelection,
                                     [row |-> rowIndex, col |-> maxElement.column,
                                      value |-> maxElement.value]),
                  usedRows |-> [st.usedRows EXCEPT ![rowIndex + 1] = 1],
                  usedColumns |-> [st.usedColumns EXCEPT ![maxElement.column + 1] = 1]]
            ELSE st)

GreedyAlgorithm(matrix) ==
  IF matrix = NULL THEN [ret |-> INVALID_MATRIX_OR_INDICES, maxSum |-> 0, maxSelection |-> <<>>]
  ELSE IF matrix.width <= 0 THEN [ret |-> INVALID_MATRIX_OR_INDICES, maxSum |-> 0, maxSelection |-> <<>>]
  ELSE LET st == GreedyRows(matrix.head, 0,
                   [maxSum |-> 0, maxSelection |-> <<>>,
                    usedRows |-> [i \in 1..matrix.height |-> 0],
                    usedColumns |-> [i \in 1..matrix.width |-> 0]])
       IN [ret |-> SUCCESS, maxSum |-> st.maxSum, maxSelection |-> st.maxSelection]

\* -------------------------------------------------------- backtrack.c
\* sh is the state the ExploreParams pointers share:
\* [maxSum, selectionValues, usedRows, usedColumns]; *selectionCount is
\* Len(sh.selectionValues).  Three more fields instrument the search: leaves
\* lists usedColumns at every arrival at currentRow == height, bestColumns is
\* usedColumns as it was when maxSum was last recorded, restored says that
\* every recursive call returned so far left both arrays as it found them
RECURSIVE CopySelectedFrom(_, _, _)
CopySelectedFrom(matrix, usedColumns, i) ==
  IF i >= matrix.height THEN <<>>
  ELSE IF usedColumns[i + 1] # 0
       THEN LET colIndex == usedColumns[i + 1] - 1
                currentElement == GetElementCol(GetRowNode(matrix, i), colIndex)
            IN <<[row |-> i, col |-> colIndex, value |-> currentElement.value]>>
               \o CopySelectedFrom(matrix, usedColumns, i + 1)
       ELSE CopySelectedFrom(matrix, usedColumns, i + 1)

CopySelectedValues(matrix, sh) ==
  [sh EXCEPT !.selectionValues = CopySelectedFrom(matrix, sh.usedColumns, 0)]

\* the n entries of an array as they are now (what the instrumentation stores)
Snapshot(array, n) == [i \in 1..n |-> array[i]]

\* instrumentation of the return of a recursive call of Explore: every call
\* returned so far left usedRows and usedColumns as it had received them
SameMarks(matrix, entered, returned) ==
  /\ returned.restored
  /\ Snapshot(returned.usedRows, matrix.height) = Snapshot(entered.usedRows, matrix.height)
  /\ Snapshot(returned.usedColumns, matrix.width) = Snapshot(entered.usedColumns, matrix.width)

RECURSIVE Explore(_, _, _, _)
RECURSIVE ExploreColumns(_, _, _, _, _)
Explore(matrix, currentRow, currentSum, sh) ==
  IF currentRow = matrix.height
  THEN IF currentSum > sh.maxSum
       THEN CopySelectedValues(matrix,
              [maxSum |-> currentSum, selectionValues |-> sh.selectionValues,
               usedRows |-> sh.usedRows, usedColumns |-> sh.usedColumns,
               leaves |-> Append(sh.leaves, Snapshot(sh.usedColumns, matrix.width)),
               bestColumns |-> Snapshot(sh.usedColumns, matrix.width),
               restored |-> sh.restored])
       ELSE [maxSum |-> sh.maxSum, selectionValues |-> sh.selectionValues,
             usedRows |-> sh.usedRows, usedColumns |-> sh.usedColumns,
             leaves |-> Append(sh.leaves, Snapshot(sh.usedColumns, matrix.width)),
             bestColumns |-> sh.bestColumns, restored |-> sh.restored]
  ELSE ExploreColumns(matrix, currentRow, currentSum, 0, sh)

\* ExploreColumns leaving out the columns that hold a negative value
RECURSIVE ExploreColumnsPruned(_, _, _, _, _)
ExploreColumnsPruned(matrix, currentRow, currentSum, i, sh) ==
  IF i >= matrix.width THEN sh
  ELSE IF sh.usedRows[currentRow + 1] = 0 /\ sh.usedColumns[i + 1] = 0
          /\ GetElementCol(GetRowNode(matrix, currentRow), i).value >= 0
       THEN LET marked == [sh EXCEPT !.usedRows[currentRow + 1] = 1,
                                     !.usedColumns[i + 1] = currentRow + 1]
                currentElement == GetElementCol(GetRowNode(matrix, currentRow), i)
                returned == Explore(matrix, currentRow + 1,
                                    Add32(currentSum, currentElement.value), marked)
                unmarked == [returned EXCEPT !.usedRows[currentRow + 1] = 0,
                                             !.usedColumns[i + 1] = 0,
                                             !.restored = SameMarks(matrix, marked, returned)]
            IN ExploreColumnsPruned(matrix, currentRow, currentSum, i + 1, unmarked)
       ELSE ExploreColumnsPruned(matrix, currentRow, currentSum, i + 1, sh)

\* ExploreColumns leaving the column's mark in place after the recursive call
RECURSIVE ExploreColumnsKeepMark(_, _, _, _, _)
ExploreColumnsKeepMark(matrix, currentRow, currentSum, i, sh) ==
  IF i >= matrix.width THEN sh
  ELSE IF sh.usedRows[currentRow + 1] = 0 /\ sh.usedColumns[i + 1] = 0
       THEN LET marked == [sh EXCEPT !.usedRows[currentRow + 1] = 1,
                                     !.usedColumns[i + 1] = currentRow + 1]
                currentElement == GetElementCol(GetRowNode(matrix, currentRow), i)
                returned == Explore(matrix, currentRow + 1,
                                    Add32(currentSum, currentElement.value), marked)
                unmarked == [returned EXCEPT !.usedRows[currentRow + 1] = 0,
                                             !.restored = SameMarks(matrix, marked, returned)]
            IN ExploreColumnsKeepMark(matrix, currentRow, currentSum, i + 1, unmarked)
       ELSE ExploreColumnsKeepMark(matrix, currentRow, currentSum, i + 1, sh)

\* the for loop of Explore, from column i on
ExploreColumns(matrix, currentRow, currentSum, i, sh) ==
  IF i >= matrix.width THEN sh
  ELSE IF sh.usedRows[currentRow + 1] = 0 /\ sh.usedColumns[i + 1] = 0
       THEN LET marked == [sh EXCEPT !.usedRows[currentRow + 1] = 1,
                                     !.usedColumns[i + 1] = currentRow + 1]
                currentElement == GetElementCol(GetRowNode(matrix, currentRow), i)
                returned == Explore(matrix, currentRow + 1,
                                    Add32(currentSum, currentElement.value), marked)
                unmarked == [returned EXCEPT !.usedRows[currentRow + 1] = 0,
                                             !.usedColumns[i + 1] = 0,
                                             !.restored = SameMarks(matrix, marked, returned)]
            IN ExploreColumns(matrix, currentRow, currentSum, i + 1, unmarked)
       ELSE ExploreColumns(matrix, currentRow, currentSum, i + 1, sh)

\* the result carries, besides the outputs, what the instrumentation saw
BacktrackAlgorithm(matrix) ==
  IF matrix = NULL
  THEN [ret |-> INVALID_MATRIX_OR_INDICES, maxSum |-> 0, selectionValues |-> <<>>,
        leaves |-> <<>>, bestColumns |-> <<>>, restored |-> TRUE,
        usedRows |-> <<>>, usedColumns |-> <<>>]
  ELSE IF matrix.width <= 0 \/ matrix.height <= 0
  THEN [ret |-> INVALID_MATRIX_OR_INDICES, maxSum |-> 0, selectionValues |-> <<>>,
        leaves |-> <<>>, bestColumns |-> <<>>, restored |-> TRUE,
        usedRows |-> <<>>, usedColumns |-> <<>>]
  ELSE LET sh == Explore(matrix, 0, 0,
                   [maxSum |-> 0, selectionValues |-> <<>>,
                    usedRows |-> [i \in 1..matrix.height |-> 0],
                    usedColumns |-> [i \in 1..matrix.width |-> 0],
                    leaves |-> <<>>, bestColumns |-> <<>>, restored |-> TRUE])
       IN [ret |-> SUCCESS, maxSum |-> sh.maxSum,
           selectionValues |-> sh.selectionValues,
           leaves |-> sh.leaves, bestColumns |-> sh.bestColumns,
           restored |-> sh.restored,
           usedRows |-> Snapshot(sh.usedRows, matrix.height),
           usedColumns |-> Snapshot(sh.usedColumns, matrix.width)]

\* -------------------------------------------------------- hungarian.c
\* the matrix with the value of the element at list position (r, p) replaced
\* by values[r][p]
WithValues(matrix, values) ==
  [matrix EXCEPT !.head =
     [r \in 1..Len(matrix.head) |->
        [p \in 1..Len(matrix.head[r]) |->
           [matrix.head[r][p] EXCEPT !.value = values[r][p]]]]]

\* the running minimum "x < min ? x : min" over a list of values
RECURSIVE MinFrom(_, _)
MinFrom(values, min) ==
  IF values = <<>> THEN min
  ELSE MinFrom(Tail(values), IF Head(values) < min THEN Head(values) ELSE min)

RowValues(rowNode) == [p \in 1..Len(rowNode) |-> rowNode[p].value]

\* the values of a matrix in row-major order
RECURSIVE AllValues(_)
AllValues(rows) ==
  IF rows = <<>> THEN <<>> ELSE RowValues(Head(rows)) \o AllValues(Tail(rows))

\* the values GetElementCol finds in column col, top to bottom
RECURSIVE ColumnValues(_, _)
ColumnValues(rows, col) ==
  IF rows = <<>> THEN <<>>
  ELSE LET element == GetElementCol(Head(rows), col)
       IN (IF element # NULL THEN <<element.value>> ELSE <<>>)
          \o ColumnValues(Tail(rows), col)

GetRowIndex(matrix, position) == position - 1

NegateAllElements(matrix) ==
  WithValues(matrix,
    [r \in 1..Len(matrix.head) |->
       [p \in 1..Len(matrix.head[r]) |-> Sub32(0, matrix.head[r][p].value)]])

MakeMatrixNonnegative(matrix) ==
  LET minValue == MinFrom(AllValues(matrix.head), INT_MAX)
  IN IF minValue < 0
     THEN WithValues(matrix,
            [r \in 1..Len(matrix.head) |->
               [p \in 1..Len(matrix.head[r]) |->
                  Sub32(matrix.head[r][p].value, minValue)]])
     ELSE matrix

SubtractRowMinima(matrix) ==
  WithValues(matrix,
    [r \in 1..Len(matrix.head) |->
       LET minRowValue == MinFrom(RowValues(matrix.head[r]), INT_MAX)
       IN [p \in 1..Len(matrix.head[r]) |->
             Sub32(matrix.head[r][p].value, minRowValue)]])

\* the for loop of SubtractColumnMinima, from column col on
RECURSIVE SubtractColumnMinimaFrom(_, _)
SubtractColumnMinimaFrom(matrix, col) ==
  IF col >= matrix.width THEN matrix
  ELSE LET minColValue == MinFrom(ColumnValues(matrix.head, col), INT_MAX)
           reduced == [matrix EXCEPT !.head =
                         [r \in 1..Len(matrix.head) |->
                            IF GetElementCol(matrix.head[r], col) # NULL
                            THEN [matrix.head[r] EXCEPT ![col + 1].value =
                                    Sub32(@, minColValue)]
                            ELSE matrix.head[r]]]
       IN SubtractColumnMinimaFrom(reduced, col + 1)

SubtractColumnMinima(matrix) == SubtractColumnMinimaFrom(matrix, 0)

\* the elements of a matrix in row-major order, each with its row index
RECURSIVE RowMajor(_, _, _)
RowMajor(matrix, r, p) ==
  IF r > Len(matrix.head) THEN <<>>
  ELSE IF p > Len(matrix.head[r]) THEN RowMajor(matrix, r + 1, 1)
  ELSE <<[rowIdx |-> GetRowIndex(matrix, r), element |-> matrix.head[r][p]]>>
       \o RowMajor(matrix, r, p + 1)

\* MarkZeros without the tests of coveredRows and coveredCols: every zero
\* marks its row and its column
RECURSIVE MarkZerosEveryZero(_, _)
MarkZerosEveryZero(cells, c) ==
  IF cells = <<>> THEN c
  ELSE LET rowIdx == Head(cells).rowIdx
           colIdx == Head(cells).element.column
       IN MarkZerosEveryZero(Tail(cells),
            IF Head(cells).element.value = 0
            THEN [coveredRows |-> [c.coveredRows EXCEPT ![rowIdx + 1] = 1],
                  coveredCols |-> [c.coveredCols EXCEPT ![colIdx + 1] = 1]]
            ELSE c)

\* the marking loop of IsOptimalSolution: c is [coveredRows, coveredCols]
RECURSIVE MarkZeros(_, _)
MarkZeros(cells, c) ==
  IF cells = <<>> THEN c
  ELSE LET rowIdx == Head(cells).rowIdx
           colIdx == Head(cells).element.column
       IN MarkZeros(Tail(cells),
            IF Head(cells).element.value = 0
               /\ c.coveredRows[rowIdx + 1] = 0 /\ c.coveredCols[colIdx + 1] = 0
            THEN [coveredRows |-> [c.coveredRows EXCEPT ![rowIdx + 1] = 1],
                  coveredCols |-> [c.coveredCols EXCEPT ![colIdx + 1] = 1]]
            ELSE c)

CountSet(array) == Cardinality({i \in 1..Len(array) : array[i] # 0})

IsOptimalSolution(matrix) ==
  LET numRows == matrix.height
      numCols == matrix.width
      c == MarkZeros(RowMajor(matrix, 1, 1),
                     [coveredRows |-> [i \in 1..numRows |-> 0],
                      coveredCols |-> [i \in 1..numCols |-> 0]])
      numCoveredRows == CountSet(c.coveredRows)
      numCoveredCols == CountSet(c.coveredCols)
  IN numCoveredRows = numRows \/ numCoveredCols = numCols

ValueAt(matrix, row, col) == GetElementCol(GetRowNode(matrix, row), col).value

\* CoverZerosFrom preferring the row: it covers the row if the row holds
\* another zero, else the column if the column holds another zero
RECURSIVE CoverZerosRowFirst(_, _, _)
CoverZerosRowFirst(matrix, k, c) ==
  LET numRows == matrix.height
      numCols == matrix.width
      row == k \div numCols
      col == k % numCols
  IN IF k >= numRows * numCols THEN c
     ELSE IF ~c.coveredRows[row + 1] /\ ~c.coveredCols[col + 1]
             /\ ValueAt(matrix, row, col) = 0
     THEN LET multipleZerosInColumn ==
                \E r \in 0..(numRows - 1) : r # row /\ ValueAt(matrix, r, col) = 0
              multipleZerosInRow ==
                \E cc \in 0..(numCols - 1) : cc # col /\ ValueAt(matrix, row, cc) = 0
          IN CoverZerosRowFirst(matrix, k + 1,
               IF multipleZerosInRow
               THEN [c EXCEPT !.coveredRows[row + 1] = TRUE]
               ELSE IF multipleZerosInColumn
               THEN [c EXCEPT !.coveredCols[col + 1] = TRUE]
               ELSE c)
     ELSE CoverZerosRowFirst(matrix, k + 1, c)

\* the two nested for loops of CoverZeros, from cell k = row * numCols + col on;
\* c is [coveredRows, coveredCols]
RECURSIVE CoverZerosFrom(_, _, _)
CoverZerosFrom(matrix, k, c) ==
  LET numRows == matrix.height
      numCols == matrix.width
      row == k \div numCols
      col == k % numCols
  IN IF k >= numRows * numCols THEN c
     ELSE IF ~c.coveredRows[row + 1] /\ ~c.coveredCols[col + 1]
             /\ ValueAt(matrix, row, col) = 0
     THEN LET multipleZerosInColumn ==
                \E r \in 0..(numRows - 1) : r # row /\ ValueAt(matrix, r, col) = 0
              multipleZerosInRow ==
                \E cc \in 0..(numCols - 1) : cc # col /\ ValueAt(matrix, row, cc) = 0
          IN CoverZerosFrom(matrix, k + 1,
               IF multipleZerosInColumn
               THEN [c EXCEPT !.coveredCols[col + 1] = TRUE]
               ELSE IF multipleZerosInRow
               THEN [c EXCEPT !.coveredRows[row + 1] = TRUE]
               ELSE c)
     ELSE CoverZerosFrom(matrix, k + 1, c)

CoverZeros(matrix, rows, cols) ==
  CoverZerosFrom(matrix, 0, [coveredRows |-> rows, coveredCols |-> cols])

\* the first pair of for loops of CreateAdditionalZeros, from cell
\* k = row * numCols + col on
RECURSIVE MinUncoveredFrom(_, _, _, _, _)
MinUncoveredFrom(matrix, rows, cols, k, minUncovered) ==
  LET numCols == matrix.width
      row == k \div numCols
      col == k % numCols
      element == GetElementCol(GetRowNode(matrix, row), col)
  IN IF k >= matrix.height * numCols THEN minUncovered
     ELSE MinUncoveredFrom(matrix, rows, cols, k + 1,
            IF ~rows[row + 1] /\ ~cols[col + 1] /\ element # NULL
               /\ element.value < minUncovered
            THEN element.value
            ELSE minUncovered)

MinUncovered(matrix, rows, cols) == MinUncoveredFrom(matrix, rows, cols, 0, INT_MAX)

\* CreateAdditionalZeros without its third pair of loops: nothing is added to
\* the doubly covered cells
CreateAdditionalZerosSubtractOnly(matrix, rows, cols) ==
  LET minUncovered == MinUncovered(matrix, rows, cols)
  IN WithValues(matrix,
       [r \in 1..Len(matrix.head) |->
          [p \in 1..Len(matrix.head[r]) |->
             LET element == matrix.head[r][p]
             IN IF r <= matrix.height /\ p <= matrix.width /\ ~rows[r] /\ ~cols[p]
                THEN Sub32(element.value, minUncovered)
                ELSE element.value]])

CreateAdditionalZeros(matrix, rows, cols) ==
  LET minUncovered == MinUncovered(matrix, rows, cols)
  IN WithValues(matrix,
       [r \in 1..Len(matrix.head) |->
          [p \in 1..Len(matrix.head[r]) |->
             LET element == matrix.head[r][p]
             IN IF r <= matrix.height /\ p <= matrix.width /\ ~rows[r] /\ ~cols[p]
                THEN Sub32(element.value, minUncovered)
                ELSE IF r <= matrix.height /\ p <= matrix.width /\ rows[r] /\ cols[p]
                THEN Add32(element.value, minUncovered)
                ELSE element.value]])

\* some "value += minUncovered" of CreateAdditionalZeros leaves the range of int
AdditionOverflows(matrix, rows, cols) ==
  LET minUncovered == MinUncovered(matrix, rows, cols)
  IN \E r \in 1..Len(matrix.head) : \E p \in 1..Len(matrix.head[r]) :
       /\ r <= matrix.height /\ p <= matrix.width
       /\ rows[r] /\ cols[p]
       /\ AddOverflows(matrix.head[r][p].value, minUncovered)

\* CopyMatrix returning the original instead of a copy
CopyMatrixShallow(h, originalMatrix) == [heap |-> h, ptr |-> originalMatrix]

\* a deep copy in fresh storage: the heap after it and the pointer returned
CopyMatrix(h, originalMatrix) ==
  [heap |-> [h EXCEPT !.copy =
               [width |-> h[originalMatrix].width,
                height |-> h[originalMatrix].height,
                head |-> [r \in 1..Len(h[originalMatrix].head) |->
                            [p \in 1..Len(h[originalMatrix].head[r]) |->
                               [value |-> h[originalMatrix].head[r][p].value,
                                column |-> h[originalMatrix].head[r][p].column]]]]],
   ptr |-> "copy"]

FreeMatrix(h, matrix) == IF matrix = NULLPTR THEN h ELSE [h EXCEPT ![matrix] = NULL]

\* FirstFreeZero without the test of coveredCols: the first column of row that
\* holds a zero of finalMatrix
RECURSIVE FirstZero(_, _, _, _)
FirstZero(finalMatrix, row, col, covered) ==
  IF col >= Len(covered) THEN col
  ELSE IF ValueAt(finalMatrix, row, col) = 0 THEN col
  ELSE FirstZero(finalMatrix, row, col + 1, covered)

\* the inner for of ExtractFinalSolution: the first column of row that holds a
\* zero of finalMatrix and is not covered, or numCols when there is none
RECURSIVE FirstFreeZero(_, _, _, _)
FirstFreeZero(finalMatrix, row, col, covered) ==
  IF col >= Len(covered) THEN col
  ELSE IF ValueAt(finalMatrix, row, col) = 0 /\ ~covered[col + 1] THEN col
  ELSE FirstFreeZero(finalMatrix, row, col + 1, covered)

\* the outer for: x is [sum, chosenElements, coveredCols]
RECURSIVE ExtractFrom(_, _, _, _)
ExtractFrom(originalMatrix, finalMatrix, row, x) ==
  LET numRows == originalMatrix.height
      numCols == originalMatrix.width
      col == FirstFreeZero(finalMatrix, row, 0, x.coveredCols)
  IN IF row >= numRows THEN x
     ELSE IF col < numCols
     THEN LET assignmentValue == ValueAt(originalMatrix, row, col)
          IN ExtractFrom(originalMatrix, finalMatrix, row + 1,
               [sum |-> Add32(x.sum, assignmentValue),
                chosenElements |-> Append(x.chosenElements,
                                     [row |-> row, col |-> col,
                                      value |-> assignmentValue]),
                coveredCols |-> [x.coveredCols EXCEPT ![col + 1] = TRUE]])
     ELSE ExtractFrom(originalMatrix, finalMatrix, row + 1, x)

ExtractFinalSolution(originalMatrix, finalMatrix) ==
  LET x == ExtractFrom(originalMatrix, finalMatrix, 0,
             [sum |-> 0, chosenElements |-> <<>>,
              coveredCols |-> [i \in 1..originalMatrix.width |-> FALSE]])
  IN [ret |-> SUCCESS, result |-> x.sum, chosenElements |-> x.chosenElements]

\* ------------------------------------------------------------ actions
Init ==
  /\ \E width \in 1..MaxDim, height \in 1..MaxDim :
       /\ width * height <= MaxCells
       /\ \E cells \in [(0..(height - 1)) \X (0..(width - 1)) -> Values] :
            heap = [orig |-> PopulateMatrix(CreateMatrix(width, height).matrix,
                                            cells, 0, 0),
                    copy |-> NULL]
  /\ matrixCopy = NULLPTR
  /\ pc = "ready"
  /\ solver = "none"
  /\ ret = SUCCESS
  /\ sum = 0
  /\ selection = <<>>
  /\ coveredRows = <<>>
  /\ coveredCols = <<>>
  /\ iterations = 0
  /\ entry = heap.orig
  /\ call = [op |-> "CreateMatrixFromFile"]

\* a caller runs GreedyAlgorithm on its matrix
CallGreedy ==
  /\ pc = "ready"
  /\ LET r == GreedyAlgorithm(heap.orig)
     IN /\ solver' = "greedy"
        /\ ret' = r.ret
        /\ sum' = r.maxSum
        /\ selection' = r.maxSelection
  /\ entry' = heap.orig
  /\ iterations' = 0
  /\ call' = [op |-> "GreedyAlgorithm"]
  /\ UNCHANGED <<heap, matrixCopy, pc, coveredRows, coveredCols>>

\* a caller runs BacktrackAlgorithm on its matrix
CallBacktrack ==
  /\ pc = "ready"
  /\ \E r \in {BacktrackAlgorithm(heap.orig)} :
        /\ solver' = "backtrack"
        /\ ret' = r.ret
        /\ sum' = r.maxSum
        /\ selection' = r.selectionValues
        /\ call' = [op |-> "BacktrackAlgorithm", leaves |-> r.leaves,
                    bestColumns |-> r.bestColumns, usedRows |-> r.usedRows,
                    usedColumns |-> r.usedColumns, restored |-> r.restored]
  /\ entry' = heap.orig
  /\ iterations' = 0
  /\ UNCHANGED <<heap, matrixCopy, pc, coveredRows, coveredCols>>

\* HungarianAlgorithm up to its while: the copy, the four passes over it and
\* the two cover arrays
HungarianEnter ==
  /\ pc = "ready"
  /\ LET c == CopyMatrix(heap, "orig")
     IN /\ matrixCopy' = c.ptr
        /\ heap' = [c.heap EXCEPT ![c.ptr] =
                      SubtractColumnMinima(SubtractRowMinima(
                        MakeMatrixNonnegative(NegateAllElements(c.heap[c.ptr]))))]
        /\ coveredRows' = [i \in 1..c.heap[c.ptr].height |-> FALSE]
        /\ coveredCols' = [i \in 1..c.heap[c.ptr].width |-> FALSE]
  /\ pc' = "loop"
  /\ solver' = "none"
  /\ ret' = SUCCESS
  /\ sum' = 0
  /\ selection' = <<>>
  /\ iterations' = 0
  /\ entry' = heap.orig
  /\ call' = [op |-> "HungarianAlgorithm"]

\* one body of the while: CoverZeros, then CreateAdditionalZeros (an int
\* that overflows wraps)
HungarianIterate ==
  /\ pc = "loop"
  /\ ~IsOptimalSolution(heap[matrixCopy])
  /\ iterations < MaxIter
  /\ LET c == CoverZeros(heap[matrixCopy], coveredRows, coveredCols)
     IN /\ coveredRows' = c.coveredRows
        /\ coveredCols' = c.coveredCols
        /\ heap' = [heap EXCEPT ![matrixCopy] =
                      CreateAdditionalZeros(@, c.coveredRows, c.coveredCols)]
  /\ iterations' = iterations + 1
  /\ UNCHANGED <<matrixCopy, pc, solver, ret, sum, selection, entry, call>>

\* one body of the while in a build that traps the signed overflow of
\* "value += minUncovered"
HungarianTrap ==
  /\ pc = "loop"
  /\ ~IsOptimalSolution(heap[matrixCopy])
  /\ iterations < MaxIter
  /\ LET c == CoverZeros(heap[matrixCopy], coveredRows, coveredCols)
     IN /\ AdditionOverflows(heap[matrixCopy], c.coveredRows, c.coveredCols)
        /\ coveredRows' = c.coveredRows
        /\ coveredCols' = c.coveredCols
  /\ pc' = "crashed"
  /\ UNCHANGED <<heap, matrixCopy, solver, ret, sum, selection, iterations, entry,
                 call>>

\* the while exits: ExtractFinalSolution, the frees and the return
HungarianReturn ==
  /\ pc = "loop"
  /\ IsOptimalSolution(heap[matrixCopy])
  /\ LET x == ExtractFinalSolution(heap.orig, heap[matrixCopy])
     IN /\ ret' = x.ret
        /\ sum' = x.result
        /\ selection' = x.chosenElements
  /\ heap' = FreeMatrix(heap, matrixCopy)
  /\ matrixCopy' = NULLPTR
  /\ coveredRows' = <<>>
  /\ coveredCols' = <<>>
  /\ pc' = "ready"
  /\ solver' = "hungarian"
  /\ UNCHANGED <<iterations, entry, call>>

\* HungarianAlgorithm when CopyMatrix or a calloc of the cover arrays returns
\* a null pointer: the early returns before the while
HungarianEnterNoMemory ==
  /\ pc = "ready"
  /\ heap.orig # NULL
  /\ solver' = "hungarian"
  /\ ret' = MEMORY_ALLOCATION_FAILURE
  /\ sum' = 0
  /\ selection' = <<>>
  /\ iterations' = 0
  /\ entry' = heap.orig
  /\ call' = [op |-> "HungarianAlgorithm"]
  /\ UNCHANGED <<heap, matrixCopy, pc, coveredRows, coveredCols>>

\* the while exits and an allocation of ExtractFinalSolution returns a null
\* pointer: it returns MEMORY_ALLOCATION_FAILURE and HungarianAlgorithm calls
\* exit with it
HungarianExtractNoMemory ==
  /\ pc = "loop"
  /\ IsOptimalSolution(heap[matrixCopy])
  /\ pc' = "exited"
  /\ UNCHANGED <<heap, matrixCopy, solver, ret, sum, selection, coveredRows,
                 coveredCols, iterations, entry, call>>

Next ==
  \/ CallGreedy
  \/ CallBacktrack
  \/ HungarianEnter
  \/ HungarianIterate
  \/ HungarianTrap
  \/ HungarianReturn
  \/ HungarianEnterNoMemory
  \/ HungarianExtractNoMemory

Spec == Init /\ [][Next]_vars

\* ------------------------------------------- the matrix layer (CoreSpec)
\* the values written by the editing calls, and the (also invalid) indices
\* and dimensions they are called with
CoreValues == {0, 1}
CoreIndices == (0 - 1)..MaxDim

\* every element's column field indexes a width-sized array
ColumnsInRange(matrix) ==
  \A r \in 1..Len(matrix.head) : \A p \in 1..Len(matrix.head[r]) :
     matrix.head[r][p].column >= 0 /\ matrix.head[r][p].column < matrix.width

\* the caller holds a null Matrix pointer
CoreInit ==
  /\ heap = [orig |-> NULL, copy |-> NULL]
  /\ matrixCopy = NULLPTR
  /\ pc = "ready"
  /\ solver = "none"
  /\ ret = SUCCESS
  /\ sum = 0
  /\ selection = <<>>
  /\ coveredRows = <<>>
  /\ coveredCols = <<>>
  /\ iterations = 0
  /\ entry = NULL
  /\ call = [op |-> "none"]

\* the result r = [ret, matrix] of an editing call becomes the caller's state
Edited(r, c) ==
  /\ heap' = [heap EXCEPT !.orig = r.matrix]
  /\ ret' = r.ret
  /\ call' = c
  /\ entry' = heap.orig
  /\ solver' = "none"
  /\ sum' = 0
  /\ selection' = <<>>
  /\ iterations' = 0
  /\ UNCHANGED <<matrixCopy, pc, coveredRows, coveredCols>>

CallCreateMatrix ==
  /\ pc = "ready"
  /\ heap.orig = NULL
  /\ \E width \in CoreIndices, height \in CoreIndices :
       /\ width * height <= MaxSmallCells
       /\ Edited(CreateMatrix(width, height),
                 [op |-> "CreateMatrix", width |-> width, height |-> height])

CallReplaceValueAtPosition ==
  /\ pc = "ready"
  /\ heap.orig # NULL
  /\ \E row \in CoreIndices, col \in CoreIndices, value \in CoreValues :
       Edited(ReplaceValueAtPosition(heap.orig, row, col, value),
              [op |-> "ReplaceValueAtPosition", row |-> row, col |-> col,
               value |-> value])

CallInsertRow ==
  /\ pc = "ready"
  /\ heap.orig # NULL
  /\ heap.orig.height < MaxDim
  /\ heap.orig.width * (heap.orig.height + 1) <= MaxSmallCells
  /\ \E sizeArray \in {heap.orig.width, heap.orig.width + 1} :
       \E newRow \in [1..sizeArray -> CoreValues] :
          Edited(InsertRow(heap.orig, newRow, sizeArray), [op |-> "InsertRow"])

CallInsertColumn ==
  /\ pc = "ready"
  /\ heap.orig # NULL
  /\ heap.orig.width < MaxDim
  /\ (heap.orig.width + 1) * heap.orig.height <= MaxSmallCells
  /\ \E sizeArray \in {heap.orig.height, heap.orig.height + 1} :
       \E newColumn \in [1..sizeArray -> CoreValues] :
          Edited(InsertColumn(heap.orig, newColumn, sizeArray),
                 [op |-> "InsertColumn"])

CallDeleteRow ==
  /\ pc = "ready"
  /\ heap.orig # NULL
  /\ \E rowIndex \in CoreIndices :
       Edited(DeleteRow(heap.orig, rowIndex), [op |-> "DeleteRow"])

CallDeleteColumn ==
  /\ pc = "ready"
  /\ \E colIndex \in CoreIndices :
       Edited(DeleteColumn(heap.orig, colIndex), [op |-> "DeleteColumn"])

\* GreedyAlgorithm on a matrix whose column fields index inside usedColumns
CoreCallGreedy ==
  /\ heap.orig # NULL => ColumnsInRange(heap.orig)
  /\ CallGreedy

\* GreedyAlgorithm when calloc returns a null pointer for a request of zero
\* bytes (height 0)
GreedyCallocNull ==
  /\ pc = "ready"
  /\ heap.orig # NULL
  /\ heap.orig.width > 0
  /\ heap.orig.height = 0
  /\ solver' = "greedy"
  /\ ret' = MEMORY_ALLOCATION_FAILURE
  /\ sum' = 0
  /\ selection' = <<>>
  /\ entry' = heap.orig
  /\ iterations' = 0
  /\ call' = [op |-> "GreedyAlgorithm"]
  /\ UNCHANGED <<heap, matrixCopy, pc, coveredRows, coveredCols>>

\* GreedyAlgorithm on a matrix with a column field outside [0, width): the
\* accesses usedColumns[currentElement->column] leave the array
GreedyOutOfBounds ==
  /\ pc = "ready"
  /\ heap.orig # NULL
  /\ heap.orig.width > 0
  /\ ~ColumnsInRange(heap.orig)
  /\ pc' = "undefined"
  /\ call' = [op |-> "GreedyAlgorithm"]
  /\ entry' = heap.orig
  /\ UNCHANGED <<heap, matrixCopy, solver, ret, sum, selection, coveredRows,
                 coveredCols, iterations>>

\* HungarianAlgorithm on a null matrix: CopyMatrix reads originalMatrix->width
HungarianNullMatrix ==
  /\ pc = "ready"
  /\ heap.orig = NULL
  /\ pc' = "undefined"
  /\ call' = [op |-> "HungarianAlgorithm"]
  /\ entry' = heap.orig
  /\ UNCHANGED <<heap, matrixCopy, solver, ret, sum, selection, coveredRows,
                 coveredCols, iterations>>

\* HungarianAlgorithm on a matrix without rows or without columns
CoreHungarianEnter ==
  /\ heap.orig # NULL
  /\ heap.orig.width <= 0 \/ heap.orig.height <= 0
  /\ HungarianEnter

CoreNext ==
  \/ CallCreateMatrix
  \/ CallReplaceValueAtPosition
  \/ CallInsertRow
  \/ CallInsertColumn
  \/ CallDeleteRow
  \/ CallDeleteColumn
  \/ CoreCallGreedy
  \/ GreedyCallocNull
  \/ GreedyOutOfBounds
  \/ HungarianNullMatrix
  \/ CoreHungarianEnter
  \/ HungarianEnterNoMemory
  \/ HungarianReturn
  \/ HungarianExtractNoMemory

CoreSpec == CoreInit /\ [][CoreNext]_vars

\* ------------------------------------------------ the loader (FileSpec)
\* the characters the text files are made of
FileChars == {"1", SEPARATOR, NEWLINE}

\* a text file exists (heap.file) and the caller holds a null Matrix pointer
FileInit ==
  /\ \E n \in 0..MaxFileLen : \E file \in [1..n -> FileChars] :
       heap = [orig |-> NULL, copy |-> NULL, file |-> file]
  /\ matrixCopy = NULLPTR
  /\ pc = "ready"
  /\ solver = "none"
  /\ ret = SUCCESS
  /\ sum = 0
  /\ selection = <<>>
  /\ coveredRows = <<>>
  /\ coveredCols = <<>>
  /\ iterations = 0
  /\ entry = NULL
  /\ call = [op |-> "none"]

CallGetMatrixSizeFromFile ==
  /\ pc = "ready"
  /\ \E size \in {GetMatrixSizeFromFile(heap.file)} :
       /\ ret' = size.ret
       /\ call' = [op |-> "GetMatrixSizeFromFile", width |-> size.width,
                   height |-> size.height]
  /\ UNCHANGED <<heap, matrixCopy, pc, solver, sum, selection, coveredRows,
                 coveredCols, iterations, entry>>

CallCreateMatrixFromFile ==
  /\ pc = "ready"
  /\ heap.orig = NULL
  /\ Edited(CreateMatrixFromFile(heap.file), [op |-> "CreateMatrixFromFile"])

FileNext ==
  \/ CallGetMatrixSizeFromFile
  \/ CallCreateMatrixFromFile

FileSpec == FileInit /\ [][FileNext]_vars

\* --------------------------------------------- greedy on extreme values
\* the cell values of the matrices GreedySpec hands to GreedyAlgorithm
ExtremeValues == {INT_MIN, 0, 1}

\* a caller's matrix of at most MaxSmallCells cells, loaded cell by cell
GreedyInit ==
  /\ \E width \in 1..MaxDim, height \in 1..MaxDim :
       /\ width * height <= MaxSmallCells
       /\ \E cells \in [(0..(height - 1)) \X (0..(width - 1)) -> ExtremeValues] :
            heap = [orig |-> PopulateMatrix(CreateMatrix(width, height).matrix,
                                            cells, 0, 0),
                    copy |-> NULL]
  /\ matrixCopy = NULLPTR
  /\ pc = "ready"
  /\ solver = "none"
  /\ ret = SUCCESS
  /\ sum = 0
  /\ selection = <<>>
  /\ coveredRows = <<>>
  /\ coveredCols = <<>>
  /\ iterations = 0
  /\ entry = heap.orig
  /\ call = [op |-> "CreateMatrixFromFile"]

GreedyNext == CallGreedy

GreedySpec == GreedyInit /\ [][GreedyNext]_vars

\* ------------------------------------------ reduction on extreme values
\* HungarianAlgorithm up to its while on the matrices of GreedyInit
ReduceNext == HungarianEnter

ReduceSpec == GreedyInit /\ [][ReduceNext]_vars

\* ------------------------------------------------------------- claims
MinDim(matrix) == Min2(matrix.height, matrix.width)

RECURSIVE SumValues(_)
SumValues(elements) ==
  IF elements = <<>> THEN 0 ELSE Head(elements).value + SumValues(Tail(elements))

\* the value of the caller's cell (row, col)
Cell(row, col) == heap.orig.head[row + 1][col + 1].value

RECURSIVE SumOver(_, _, _)
SumOver(domain, f, byRow) ==
  IF domain = {} THEN 0
  ELSE LET x == CHOOSE y \in domain : TRUE
       IN (IF byRow THEN Cell(x, f[x]) ELSE Cell(f[x], x))
          + SumOver(domain \ {x}, f, byRow)

Injective(f) == \A x, y \in DOMAIN f : x # y => f[x] # f[y]

\* the maximum, over all selections of min(H,W) cells of the caller's matrix
\* with pairwise-distinct rows and pairwise-distinct columns, of their sum
MaximumSum ==
  LET rows == 0..(heap.orig.height - 1)
      cols == 0..(heap.orig.width - 1)
      byRow == heap.orig.height <= heap.orig.width
      picks == IF byRow THEN {f \in [rows -> cols] : Injective(f)}
               ELSE {f \in [cols -> rows] : Injective(f)}
      sums == {SumOver(DOMAIN f, f, byRow) : f \in picks}
  IN CHOOSE best \in sums : \A other \in sums : other <= best

Returned(name) == pc = "ready" /\ solver = name /\ ret = SUCCESS

\* C1: the sum BacktrackAlgorithm returns is the maximum over all selections of
\* min(H,W) cells with pairwise-distinct rows and pairwise-distinct columns
C1_BacktrackReturnsMaximum ==
  Returned("backtrack") => sum = MaximumSum

\* C2: whenever HungarianAlgorithm returns, its sum is the sum
\* BacktrackAlgorithm returns on the same matrix
C2_HungarianEqualsBacktrack ==
  Returned("hungarian") => sum = BacktrackAlgorithm(heap.orig).maxSum

\* C3: the loop of HungarianAlgorithm runs at most min(H,W) bodies
C3_LoopWithinMinDim ==
  iterations <= MinDim(entry)

\* C4: the sum a solver returns is the sum of the values of its selection
C4_SumOfSelection ==
  (pc = "ready" /\ solver # "none" /\ ret = SUCCESS) => SumValues(selection) = sum

\* C5: the cells of a returned selection have pairwise-distinct rows and
\* pairwise-distinct columns, lie inside [0,H) x [0,W), and are at most min(W,H)
C5_SelectionExclusive ==
  (pc = "ready" /\ solver # "none" /\ ret = SUCCESS) =>
     /\ \A i, j \in 1..Len(selection) :
          i # j => /\ selection[i].row # selection[j].row
                   /\ selection[i].col # selection[j].col
     /\ \A i \in 1..Len(selection) :
          /\ selection[i].row \in 0..(heap.orig.height - 1)
          /\ selection[i].col \in 0..(heap.orig.width - 1)
     /\ Len(selection) <= MinDim(heap.orig)

\* a solver returned a selection of two or more cells
C5_Witness ==
  /\ pc = "ready" /\ solver = "greedy" /\ ret = SUCCESS
  /\ Len(selection) >= 2
  /\ heap.orig.width > heap.orig.height

\* C6: the sum GreedyAlgorithm returns is at most the sum BacktrackAlgorithm
\* returns on the same matrix
C6_GreedyAtMostBacktrack ==
  Returned("greedy") => sum <= BacktrackAlgorithm(heap.orig).maxSum

\* C7: the caller's matrix is, during and after every solver call, what it was
\* when the call was entered, and Hungarian's working pointer never designates
\* the caller's storage
C7_CallerMatrixUnchanged ==
  /\ heap.orig = entry
  /\ matrixCopy # "orig"

\* HungarianAlgorithm returned after its loop rewrote the working matrix
C7_Witness ==
  /\ Returned("hungarian")
  /\ iterations >= 1
  /\ heap.orig = entry

\* C8: a successful BacktrackAlgorithm call returns exactly min(H,W) elements
C8_BacktrackSelectsMinDim ==
  Returned("backtrack") => Len(selection) = MinDim(heap.orig)

\* C9: whenever HungarianAlgorithm returns SUCCESS, extraction has matched
\* exactly min(H,W) zeros, one per selected row and in distinct columns
C9_HungarianSelectsMinDim ==
  Returned("hungarian") =>
     /\ Len(selection) = MinDim(heap.orig)
     /\ \A i, j \in 1..Len(selection) :
          i # j => /\ selection[i].row # selection[j].row
                   /\ selection[i].col # selection[j].col

\* HungarianAlgorithm returned from a non-square matrix after running its loop
C9_Witness ==
  /\ Returned("hungarian")
  /\ iterations >= 1
  /\ heap.orig.width # heap.orig.height
  /\ Len(selection) = MinDim(heap.orig)

\* C10: once min(H,W) loop bodies have run without reaching optimality,
\* HungarianAlgorithm returns an error instead of running another body
C10_NonConvergenceReturned ==
  [][(pc = "loop" /\ iterations >= MinDim(entry)
        /\ ~IsOptimalSolution(heap[matrixCopy]))
     => (pc' = "ready" /\ ret' # SUCCESS)]_vars

\* the reference greedy procedure on the caller's matrix, from row on: used is
\* the set of columns taken so far; a row with no free column is skipped,
\* otherwise the lowest column holding the maximum of the free columns is taken
RECURSIVE ReferenceGreedy(_, _)
ReferenceGreedy(row, used) ==
  LET free == (0..(heap.orig.width - 1)) \ used
  IN IF row >= heap.orig.height THEN <<>>
     ELSE IF free = {} THEN ReferenceGreedy(row + 1, used)
     ELSE LET col == CHOOSE c \in free :
                       \A d \in free : \/ Cell(row, d) < Cell(row, c)
                                       \/ Cell(row, d) = Cell(row, c) /\ c <= d
          IN <<[row |-> row, col |-> col, value |-> Cell(row, col)]>>
             \o ReferenceGreedy(row + 1, used \cup {col})

\* the sum of a list of selected elements as the int the code accumulates
RECURSIVE SumValues32(_)
SumValues32(elements) ==
  IF elements = <<>> THEN 0
  ELSE Add32(SumValues32(SubSeq(elements, 1, Len(elements) - 1)),
             elements[Len(elements)].value)

\* C11: the selection and the sum GreedyAlgorithm returns are those of the
\* reference greedy procedure (rows in index order, the maximum of the free
\* columns, ties to the lowest column), and exactly min(H,W) values are selected
C11_GreedyIsReference ==
  Returned("greedy") =>
     /\ selection = ReferenceGreedy(0, {})
     /\ sum = SumValues32(ReferenceGreedy(0, {}))
     /\ Len(selection) = MinDim(heap.orig)

\* the matrix a call was made on is null, or has no column or no row
InvalidMatrix(matrix) ==
  \/ matrix = NULL
  \/ matrix.width <= 0
  \/ matrix.height <= 0

\* C12: GreedyAlgorithm returns INVALID_MATRIX_OR_INDICES whenever the matrix is
\* null or has width <= 0 or height <= 0, and SUCCESS only when W > 0 and H > 0
C12_GreedyRejectsInvalid ==
  (pc = "ready" /\ solver = "greedy") =>
     /\ InvalidMatrix(entry) => ret = INVALID_MATRIX_OR_INDICES
     /\ ret = SUCCESS => ~InvalidMatrix(entry)

\* C13: a HungarianAlgorithm call on a matrix that is null or has a
\* non-positive width or height returns INVALID_MATRIX_OR_INDICES, and has
\* made no copy
C13_HungarianRejectsInvalid ==
  (call.op = "HungarianAlgorithm" /\ InvalidMatrix(entry)) =>
     /\ pc = "ready"
     /\ ret = INVALID_MATRIX_OR_INDICES
     /\ heap.copy = NULL

C16_ReplaceOnlyTheCell ==
  call.op = "ReplaceValueAtPosition" =>
     IF call.row < 0 \/ call.row >= entry.height
        \/ call.col < 0 \/ call.col >= entry.width
     THEN ret = OUT_OF_BOUNDS /\ heap.orig = entry
     ELSE /\ ret = SUCCESS
          /\ heap.orig.width = entry.width
          /\ heap.orig.height = entry.height
          /\ Len(heap.orig.head) = Len(entry.head)
          /\ \A r \in 1..Len(entry.head) :
               /\ Len(heap.orig.head[r]) = Len(entry.head[r])
               /\ \A p \in 1..Len(entry.head[r]) :
                    /\ heap.orig.head[r][p].column = entry.head[r][p].column
                    /\ heap.orig.head[r][p].value =
                         IF r = call.row + 1 /\ p = call.col + 1
                         THEN call.value
                         ELSE entry.head[r][p].value

\* ReplaceValueAtPosition changed a cell of a matrix with several rows and
\* several columns
C16_Witness ==
  /\ call.op = "ReplaceValueAtPosition"
  /\ ret = SUCCESS
  /\ heap.orig # entry
  /\ entry.width >= 2 /\ entry.height >= 2

\* the number of ways to give h rows pairwise-distinct columns out of w:
\* w! / (w - h)!
RECURSIVE Arrangements(_, _)
Arrangements(w, h) == IF h <= 0 THEN 1 ELSE w * Arrangements(w - 1, h - 1)

\* C14: on a matrix with W >= H the search arrives at currentRow == H exactly
\* W!/(W-H)! times (H! when W = H), each time with a different assignment of
\* the H rows to pairwise-distinct columns
C14_BacktrackVisitsEveryLeafOnce ==
  (Returned("backtrack") /\ heap.orig.width >= heap.orig.height) =>
     /\ Len(call.leaves) = Arrangements(heap.orig.width, heap.orig.height)
     /\ \A i, j \in 1..Len(call.leaves) : i # j => call.leaves[i] # call.leaves[j]
     /\ \A i \in 1..Len(call.leaves) :
          \A row \in 1..heap.orig.height :
             Cardinality({c \in 1..heap.orig.width : call.leaves[i][c] = row}) = 1

\* the search of a 3 x 3 matrix with a negative cell returned after 3! leaves
C14_Witness ==
  /\ Returned("backtrack")
  /\ heap.orig.width = 3 /\ heap.orig.height = 3
  /\ Len(call.leaves) = 6
  /\ \E r, c \in 0..2 : Cell(r, c) < 0

\* C20: every triple (row, col, value) BacktrackAlgorithm returns has as col the
\* column the search had given to row when the returned maximum was recorded,
\* and as value the cell (row, col) of the matrix
C20_TriplesDescribeBestAssignment ==
  Returned("backtrack") =>
     \A k \in 1..Len(selection) :
        /\ call.bestColumns[selection[k].col + 1] = selection[k].row + 1
        /\ selection[k].value = Cell(selection[k].row, selection[k].col)

\* C17: no step of a solver ends the process: an allocation failure inside
\* HungarianAlgorithm comes back to the caller as a return code, never as exit()
C17_NoProcessExit ==
  pc # "exited"

\* the positions at which the lines of a text file start
LineStarts(file) ==
  {i \in 1..Len(file) : i = 1 \/ file[i - 1] = NEWLINE}

\* the number of cells of the line that starts at position i: its separators
\* plus one
CellsOfLine(file, i) ==
  Cardinality({j \in i..Len(file) :
                 /\ file[j] = SEPARATOR
                 /\ \A k \in i..j : file[k] # NEWLINE}) + 1

\* the file is one or more lines, each a row of one or more numbers separated
\* by single separators; the last line may or may not end with a newline
RowsOfCells(file) ==
  /\ file # <<>>
  /\ \A i \in 1..Len(file) :
       file[i] \in {SEPARATOR, NEWLINE} =>
          /\ i > 1 /\ IsDigit(file[i - 1])
          /\ file[i] = SEPARATOR => (i < Len(file) /\ IsDigit(file[i + 1]))

\* C18: for a file of rows of cells GetMatrixSizeFromFile reports as width the
\* separators of the first line plus one and as height the number of lines,
\* whether or not the last line ends with a newline
C18_SizeOfFile ==
  (call.op = "GetMatrixSizeFromFile" /\ RowsOfCells(heap.file)) =>
     /\ ret = SUCCESS
     /\ call.width = CellsOfLine(heap.file, 1)
     /\ call.height = Cardinality(LineStarts(heap.file))

\* C19: loading a file of rows of cells in which some line has a number of
\* cells different from that of the first line fails with OUT_OF_BOUNDS
C19_LoaderRejectsRaggedFile ==
  (/\ call.op = "CreateMatrixFromFile"
   /\ RowsOfCells(heap.file)
   /\ \E i \in LineStarts(heap.file) :
        CellsOfLine(heap.file, i) # CellsOfLine(heap.file, 1))
  => ret = OUT_OF_BOUNDS

\* C21: every recursive call of Explore returned with usedRows and usedColumns
\* as they were when it was entered, and when the search of BacktrackAlgorithm
\* has returned both arrays are all zero, as they were when it started
C21_MarksRestored ==
  (call.op = "BacktrackAlgorithm" /\ ret = SUCCESS) =>
     /\ call.restored
     /\ \A i \in 1..heap.orig.height : call.usedRows[i] = 0
     /\ \A i \in 1..heap.orig.width : call.usedColumns[i] = 0

\* a search three rows deep has returned: calls of Explore at every depth
\* marked a row and a column and gave them back
C21_Witness ==
  /\ Returned("backtrack")
  /\ heap.orig.height = 3 /\ heap.orig.width = 3
  /\ Len(call.leaves) = 6
  /\ Len(call.usedRows) = 3 /\ Len(call.usedColumns) = 3

\* C22: when HungarianAlgorithm has run its four passes and not yet a body of
\* its while, every cell of the copy is >= 0, every row of the copy holds a
\* zero and every column of the copy holds a zero
C22_ReducedCopy ==
  (pc = "loop" /\ iterations = 0) =>
     LET copy == heap[matrixCopy]
     IN /\ \A r \in 1..copy.height, c \in 1..copy.width :
             copy.head[r][c].value >= 0
        /\ \A r \in 1..copy.height :
             \E c \in 1..copy.width : copy.head[r][c].value = 0
        /\ \A c \in 1..copy.width :
             \E r \in 1..copy.height : copy.head[r][c].value = 0

\* the positions (row, col) of the zeros of a matrix
ZeroCells(matrix) ==
  {z \in (0..(matrix.height - 1)) \X (0..(matrix.width - 1)) :
     matrix.head[z[1] + 1][z[2] + 1].value = 0}

\* the set of indices an array of booleans holds true at
Covered(array) == {i \in 0..(Len(array) - 1) : array[i + 1]}

\* the cover pass as the claim words it, over the cells k, k + 1, ... in
\* row-major order: lines is [rows, cols], the sets of covered lines so far
RECURSIVE ReferenceCover(_, _, _, _)
ReferenceCover(zeros, width, cellsLeft, lines) ==
  IF cellsLeft = <<>> THEN lines
  ELSE LET row == Head(cellsLeft) \div width
           col == Head(cellsLeft) % width
           visited ==
             IF <<row, col>> \in zeros /\ row \notin lines.rows /\ col \notin lines.cols
             THEN IF \E z \in zeros : z[2] = col /\ z[1] # row
                  THEN [lines EXCEPT !.cols = @ \cup {col}]
                  ELSE IF \E z \in zeros : z[1] = row /\ z[2] # col
                  THEN [lines EXCEPT !.rows = @ \cup {row}]
                  ELSE lines
             ELSE lines
       IN ReferenceCover(zeros, width, Tail(cellsLeft), visited)

\* a step that runs the cover pass: one body of the while, trapped or not
CoverStep == pc = "loop" /\ pc' \in {"loop", "crashed"}

\* C23: the cover pass of a body of the while leaves covered the lines the
\* claim's rule gives when the cells are visited in row-major order (for an
\* uncovered zero: its column if the column holds another zero, else its row
\* if the row holds another zero, else nothing); every line covered before
\* is covered after, and the cells the augmentation then leaves alone (those
\* on exactly one covered line) keep their value
C23_CoverPass ==
  [][CoverStep =>
       LET matrix == heap[matrixCopy]
           after == ReferenceCover(ZeroCells(matrix), matrix.width,
                      [k \in 1..(matrix.height * matrix.width) |-> k - 1],
                      [rows |-> Covered(coveredRows), cols |-> Covered(coveredCols)])
       IN /\ Covered(coveredRows') = after.rows
          /\ Covered(coveredCols') = after.cols
          /\ Covered(coveredRows) \subseteq Covered(coveredRows')
          /\ Covered(coveredCols) \subseteq Covered(coveredCols')
          /\ \A r \in 1..matrix.height, c \in 1..matrix.width :
               (coveredRows'[r] # coveredCols'[c]) =>
                  heap'[matrixCopy].head[r][c].value = matrix.head[r][c].value]_vars

\* a second body of the while has run with a row and a column covered: its
\* cover pass started from lines an earlier pass had covered, and both
\* branches of the rule have been taken
C23_Witness ==
  /\ pc = "loop" /\ iterations = 2
  /\ \E r \in 1..Len(coveredRows) : coveredRows[r]
  /\ \E c \in 1..Len(coveredCols) : coveredCols[c]

\* the cells (row, col), 1-based, on no line of the cover rows, cols
UncoveredCells(matrix, rows, cols) ==
  {z \in (1..matrix.height) \X (1..matrix.width) : ~rows[z[1]] /\ ~cols[z[2]]}

\* a body of the while that ran to its end: cover pass, then augmentation
AugmentStep == pc = "loop" /\ pc' = "loop" /\ iterations' = iterations + 1

C25_AugmentationMakesProgress ==
  [][AugmentStep =>
       \E r \in 1..heap[matrixCopy].height, c \in 1..heap[matrixCopy].width :
          /\ heap[matrixCopy].head[r][c].value # 0
          /\ heap'[matrixCopy].head[r][c].value = 0]_vars

\* the step in which the while exits and ExtractFinalSolution runs
ExtractStep == pc = "loop" /\ pc' = "ready"

\* C26: the elements HungarianAlgorithm returns come in increasing row order,
\* at most one per row; each is at the lowest column that holds a zero of the
\* copy in its row and is the column of no earlier element, and carries the
\* caller's value at that cell; a row without element has no zero outside the
\* columns of the elements of earlier rows; the sum returned is the sum of the
\* elements' values
C26_Extraction ==
  [][ExtractStep =>
       LET final == heap[matrixCopy]
           chosen == selection'
           claimedBefore(row) ==
             {chosen[j].col : j \in {i \in 1..Len(chosen) : chosen[i].row < row}}
           free(row, col) ==
             final.head[row + 1][col + 1].value = 0 /\ col \notin claimedBefore(row)
       IN /\ \A k \in 1..Len(chosen) :
               /\ chosen[k].row \in 0..(final.height - 1)
               /\ chosen[k].col \in 0..(final.width - 1)
               /\ \A j \in 1..(k - 1) : chosen[j].row < chosen[k].row
               /\ free(chosen[k].row, chosen[k].col)
               /\ \A col \in 0..(chosen[k].col - 1) : ~free(chosen[k].row, col)
               /\ chosen[k].value = Cell(chosen[k].row, chosen[k].col)
          /\ \A row \in 0..(final.height - 1) :
               (\A k \in 1..Len(chosen) : chosen[k].row # row) =>
                  \A col \in 0..(final.width - 1) : ~free(row, col)
          /\ sum' = SumValues(chosen)]_vars

\* HungarianAlgorithm has returned three elements after a body of its while,
\* and some row took a column to the left of the column of an earlier row
C26_Witness ==
  /\ Returned("hungarian")
  /\ Len(selection) = 3
  /\ iterations >= 1
  /\ \E j, k \in 1..3 : j < k /\ selection[k].col < selection[j].col

\* C27: when HungarianAlgorithm returns on a square matrix, the sum it returns
\* is the maximum of the sums of the assignments of every row to a column of
\* its own
C27_HungarianOptimalOnSquare ==
  (Returned("hungarian") /\ heap.orig.width = heap.orig.height) =>
     sum = MaximumSum

\* the values of the cells of the caller's matrix
InputValues ==
  {Cell(r, c) : r \in 0..(heap.orig.height - 1), c \in 0..(heap.orig.width - 1)}

\* the greatest input value minus the least
InputRange ==
  (CHOOSE hi \in InputValues : \A v \in InputValues : v <= hi)
  - (CHOOSE lo \in InputValues : \A v \in InputValues : lo <= v)

\* C28: in every body of the while the augmentation finds a cell on no covered
\* line (so its minimum is a value of the copy, not INT_MAX), none of its
\* additions leaves the range of int, and after it every cell of the copy is
\* between 0 and the greatest input value minus the least
C28_AugmentationInRange ==
  [][CoverStep =>
       /\ UncoveredCells(heap[matrixCopy], coveredRows', coveredCols') # {}
       /\ MinUncovered(heap[matrixCopy], coveredRows', coveredCols') # INT_MAX
       /\ ~AdditionOverflows(heap[matrixCopy], coveredRows', coveredCols')
       /\ \A r \in 1..heap[matrixCopy].height, c \in 1..heap[matrixCopy].width :
            heap'[matrixCopy].head[r][c].value \in 0..InputRange]_vars

\* the matrix holds min(H,W) zeros with pairwise-distinct rows and
\* pairwise-distinct columns
IndependentZeros(matrix) ==
  \E picked \in SUBSET ZeroCells(matrix) :
     /\ Cardinality(picked) = MinDim(matrix)
     /\ \A y, z \in picked : y # z => (y[1] # z[1] /\ y[2] # z[2])

\* C29: whenever the copy HungarianAlgorithm tests in its while condition
\* holds min(H,W) zeros with pairwise-distinct rows and pairwise-distinct
\* columns, IsOptimalSolution returns true on it
C29_OptimalityCheckComplete ==
  (pc = "loop" /\ IndependentZeros(heap[matrixCopy])) =>
     IsOptimalSolution(heap[matrixCopy])

\* C30: after any sequence of calls of CreateMatrix, ReplaceValueAtPosition,
\* InsertRow, InsertColumn, DeleteRow and DeleteColumn every element's column
\* field is its position in its row and lies in [0, width), and no access
\* usedColumns[element->column] of GreedyAlgorithm leaves the array
C30_ColumnFieldIsPosition ==
  /\ heap.orig # NULL =>
       \A r \in 1..Len(heap.orig.head) : \A p \in 1..Len(heap.orig.head[r]) :
          /\ heap.orig.head[r][p].column = p - 1
          /\ heap.orig.head[r][p].column \in 0..(heap.orig.width - 1)
  /\ call.op = "GreedyAlgorithm" => pc # "undefined"
====
